---- MODULE Spec2Model ----
(***************************************************************************)
(* Model of the execution core of the serverless function platform         *)
(* (src/backend/main.py): start-up creation of the warm container pools,   *)
(* and the execute endpoint that stages a function's code into a pooled    *)
(* container, runs it and records metrics.  Requests are served by         *)
(* concurrent worker threads; every blocking call of the handler (host    *)
(* file system, container engine) ends one atomic step of the model.      *)
(***************************************************************************)
EXTENDS Integers, Sequences, FiniteSets, TLC

(* ------------------------------ bounds --------------------------------- *)
\* number of execute requests served (each by its own worker thread)
MaxReq == 2
\* wall-clock ticks a function process is observed for while it runs
MaxElapsed == 2
\* number of create and update requests served
MaxCrud == 2

(* ------------------------- program constants --------------------------- *)
\* startup_event: "Create 2 containers per pool"
PoolCount == 2

NoName == <<"none", "none", -1>>
NoFile == "<nofile>"
NoCode == "<None>"

Languages == {"python", "javascript"}
\* pool_type = runtime if runtime else "docker"
PoolTypes == {"docker", "runsc"}
Names == { <<l, p, i>> : l \in Languages, p \in PoolTypes, i \in 0..(PoolCount - 1) }

\* f"{language}_{pool_type}_pool_{i}": the fields that make up the name
ContainerNameNoIndex(language, pool_type, i) == <<language, pool_type, 0>>

ContainerName(language, pool_type, i) == <<language, pool_type, i>>

\* the text of the name, as the engine and the response show it
NameText(name) == name[1] \o "_" \o name[2] \o "_pool_" \o ToString(name[3])

\* the four create_container_pool calls of startup_event, in program order;
\* guarded marks the calls inside the try/except HTTPException block
PoolConfig ==
  << [key |-> "docker_python",     language |-> "python",     runtime |-> "none",  guarded |-> FALSE],
     [key |-> "docker_javascript", language |-> "javascript", runtime |-> "none",  guarded |-> FALSE],
     [key |-> "gvisor_python",     language |-> "python",     runtime |-> "runsc", guarded |-> TRUE],
     [key |-> "gvisor_javascript", language |-> "javascript", runtime |-> "runsc", guarded |-> TRUE] >>

PoolKeys == { PoolConfig[k].key : k \in 1..Len(PoolConfig) }

VARIABLES
  started,          \* position of startup_event: "init", "up" or "aborted"
  failed_at,        \* the container whose creation raised HTTPException, or NoName
  engine,           \* the container engine: name -> "absent" | "running" | "exited"
  container_pools,  \* the global dict: pool key -> sequence of container names
  sandbox,          \* file system of each container under /sandbox: name -> filename -> content
  tmp,              \* host temp directories: unique_id -> content of the function file
  metrics,          \* the prometheus registry: family -> labels -> value
  db,               \* the functions table: id -> row
  inv,              \* the execute requests: request -> its handler's local state
  crud              \* the create and update requests: request -> its handler's local state

vars == <<started, failed_at, engine, container_pools, sandbox, tmp, metrics, db, inv, crud>>

(* --------------------------- create_container_pool --------------------- *)
\* One iteration of the for loop and the rest of it.  bad is the container
\* (if any) that the engine refuses to run for a reason other than a name
\* conflict; run on an existing name raises APIError (conflict) and the
\* handler then fetches the container by name.
\* lines 90-91: the container could be neither run nor fetched; the
\* HTTPException leaves the function, and the pool built so far with it
PoolFailureReturnsPartial(pool, eng, container_name) ==
  [ok |-> TRUE, pool |-> pool, eng |-> eng, failed |-> container_name]

PoolFailure(pool, eng, container_name) ==
  [ok |-> FALSE, pool |-> pool, eng |-> eng, failed |-> container_name]

RECURSIVE PoolLoop(_, _, _, _, _, _)
PoolLoop(language, pool_type, i, pool, eng, bad) ==
  IF i = PoolCount
  THEN [ok |-> TRUE, pool |-> pool, eng |-> eng, failed |-> NoName]
  ELSE LET container_name == ContainerName(language, pool_type, i) IN
       IF eng[container_name] = "absent" /\ container_name # bad
       THEN \* client.containers.run succeeded
            PoolLoop(language, pool_type, i + 1, Append(pool, container_name),
                     [eng EXCEPT ![container_name] = "running"], bad)
       ELSE IF eng[container_name] # "absent"
       THEN \* APIError, client.containers.get found it
            PoolLoop(language, pool_type, i + 1, Append(pool, container_name), eng, bad)
       ELSE \* APIError then NotFound: HTTPException(500)
            PoolFailure(pool, eng, container_name)

create_container_poolRecreates(language, runtime, eng, bad) ==
  LET pool_type == IF runtime # "none" THEN runtime ELSE "docker" IN
  PoolLoop(language, pool_type, 0, <<>>,
           [n \in Names |-> IF n[1] = language /\ n[2] = pool_type THEN "absent" ELSE eng[n]],
           bad)

create_container_pool(language, runtime, eng, bad) ==
  PoolLoop(language, IF runtime # "none" THEN runtime ELSE "docker", 0, <<>>, eng, bad)

(* ------------------------------ startup_event -------------------------- *)
\* Runs the configured calls from position k on.  st carries the dict, the
\* engine and the outcome so far.
\* What startup_event does with the HTTPException of the call c, which
\* failed at the container r.failed: caught inside the try block (a warning
\* is logged and the block is left), otherwise it leaves startup_event and
\* the application does not start.
OnPoolFailureNeverAborts(c, st, r) ==
  [st EXCEPT !.eng = r.eng, !.failed = r.failed]

OnPoolFailure(c, st, r) ==
  IF c.guarded
  THEN [st EXCEPT !.eng = r.eng, !.failed = r.failed]
  ELSE [st EXCEPT !.eng = r.eng, !.failed = r.failed, !.started = "aborted"]

RECURSIVE StartupFrom(_, _, _)
StartupFrom(k, st, bad) ==
  IF k > Len(PoolConfig) THEN st
  ELSE LET c == PoolConfig[k]
           r == create_container_pool(c.language, c.runtime, st.eng, bad)
       IN IF r.ok
          THEN StartupFrom(k + 1,
                 [st EXCEPT !.pools = [key \in DOMAIN st.pools \cup {c.key} |->
                                         IF key = c.key THEN r.pool ELSE st.pools[key]],
                            !.eng = r.eng], bad)
          ELSE OnPoolFailure(c, st, r)

EmptyPools == [key \in {} |-> <<>>]

\* the engine of a host that never ran the application
FreshEngine == [n \in Names |-> "absent"]
\* the engine of a host that ran it before: the pool containers exist, and
\* the first python container is no longer running
LeftoverEngine ==
  [n \in Names |-> IF n = <<"python", "docker", 0>> THEN "exited" ELSE "running"]

(* ------------------------------ the registry --------------------------- *)
\* rows of the functions table (models.Function); code is NoCode for a row
\* created through POST /functions/, whose schema has no code field
InitialFunctions ==
  [id \in 1..5 |->
     CASE id = 1 -> [name |-> "hello",  route |-> "/hello",  language |-> "python",     timeout |-> 1, code |-> "src_a"]
       [] id = 2 -> [name |-> "boom",   route |-> "/boom",   language |-> "python",     timeout |-> 1, code |-> "src_b"]
       [] id = 3 -> [name |-> "jsfn",   route |-> "/jsfn",   language |-> "javascript", timeout |-> 1, code |-> "src_c"]
       [] id = 4 -> [name |-> "rubyfn", route |-> "/rubyfn", language |-> "ruby",       timeout |-> 1, code |-> "src_d"]
       [] id = 5 -> [name |-> "nocode", route |-> "/nocode", language |-> "python",     timeout |-> 1, code |-> NoCode]]

\* the requests a client may send, as <<function_id, tech>>: tech is the
\* default "docker", a spelling of gvisor, or a value that names no runtime;
\* function 6 is not registered
RequestInputs ==
  { <<1, "docker">>, <<2, "podman">>, <<1, "GVISOR">>, <<3, "podman">>, <<3, "GVISOR">>,
    <<4, "docker">>, <<5, "docker">>, <<6, "GVISOR">> }

\* str.lower()
Lower(s) == IF s = "GVISOR" THEN "gvisor" ELSE s

\* ext_map = {"python": "py", "javascript": "js"}
ext_mapAcceptsRuby == [language \in {"python", "javascript", "ruby"} |->
                         IF language = "python" THEN "py" ELSE "js"]

ext_map == [language \in {"python", "javascript"} |->
              IF language = "python" THEN "py" ELSE "js"]

\* f"function.{file_ext}"
Filename(file_ext) == IF file_ext = "py" THEN "function.py" ELSE "function.js"

\* lines 198-201: the pool key of a request
PoolKeyOfCaseSensitive(language, tech) ==
  IF language = "python"
  THEN (IF tech = "gvisor" THEN "gvisor_python" ELSE "docker_python")
  ELSE (IF tech = "gvisor" THEN "gvisor_javascript" ELSE "docker_javascript")

PoolKeyOf(language, tech) ==
  IF language = "python"
  THEN (IF Lower(tech) = "gvisor" THEN "gvisor_python" ELSE "docker_python")
  ELSE (IF Lower(tech) = "gvisor" THEN "gvisor_javascript" ELSE "docker_javascript")

\* container_pools.get(pool_key): None is modelled by the empty sequence
GetPoolFallsBack(pools, pool_key) ==
  IF pool_key \in DOMAIN pools THEN pools[pool_key] ELSE pools["docker_python"]

GetPool(pools, pool_key) ==
  IF pool_key \in DOMAIN pools THEN pools[pool_key] ELSE <<>>

\* "Select the first container from the pool": the index used in pool[...]
SelectIndex(pool) == 0

\* lines 226-229: the command run inside the container
ExecCmd(language, filename) ==
  IF language = "python" THEN <<"python", <<"/sandbox", filename>>>>
  ELSE <<"node", <<"/sandbox", filename>>>>

\* create_tar_for_file(file_path, arcname): a single-entry archive
create_tar_for_fileWrongName(content, arcname) ==
  [arcname |-> IF arcname = "function.py" THEN "function.js" ELSE "function.py",
   data |-> content]

create_tar_for_file(content, arcname) == [arcname |-> arcname, data |-> content]

(* ------------------------------ responses ------------------------------ *)
HTTPException(status, detail) == [status |-> status, detail |-> detail]
\* an exception that is not an HTTPException leaves the handler untranslated
Untranslated == [status |-> 500, detail |-> "Internal Server Error"]
ExecutionResult(output, error, container_name) ==
  [status |-> 200, output |-> output, error |-> error, container_name |-> container_name]

NotFound            == HTTPException(404, "Function not found")
UnsupportedLanguage == HTTPException(400, "Unsupported language")
PoolUnavailable     == HTTPException(500, "No available container in pool")
StagingFailed       == HTTPException(500, "Failed to copy code into container")
ExecutionFailed     == HTTPException(500, "Execution failed")

\* what a user function may do when it runs the source src: its exit
\* status and its two output streams (None when a stream is empty)
ProcOutcomes(src) ==
  { [exit_code |-> 0, stdout |-> <<"out", src>>, stderr |-> <<"None">>],
    [exit_code |-> 1, stdout |-> <<"None">>, stderr |-> <<"err", src>>] }

\* stdout.decode() if stdout else ""
Decode(stream) == IF stream = <<"None">> THEN <<>> ELSE stream

\* container.stats(stream=False): the call returns the usage entries or raises
StatsSamples ==
  { [raised |-> FALSE, has_cpu |-> TRUE,  total_usage |-> 5, has_mem |-> TRUE,  usage |-> 9],
    [raised |-> TRUE,  has_cpu |-> FALSE, total_usage |-> 0, has_mem |-> FALSE, usage |-> 0] }

\* a FunctionCreate body (schemas.py): name, route, language, timeout
FunctionCreate(name, route) ==
  [name |-> name, route |-> route, language |-> "python", timeout |-> 1]

\* local state of a create or update request that has not been received yet
IdleCrud ==
  [pc |-> "idle", op |-> "", function_id |-> 0, body |-> FunctionCreate("", ""),
   loaded |-> FunctionCreate("", ""), response |-> HTTPException(0, "")]

\* local state of a request that has not been received yet
IdleInv ==
  [pc |-> "idle", function_id |-> 0, tech |-> "", language |-> "", code |-> NoCode,
   timeout |-> 0, unique_id |-> 0, pool_key |-> "", container |-> NoName, index |-> -1,
   archive |-> create_tar_for_file(NoFile, ""), exec_cmd |-> <<>>, ran |-> NoFile,
   elapsed |-> 0, exit_code |-> -1, response |-> HTTPException(0, ""),
   calls |-> <<>>, rmtrees |-> 0, fault |-> "none"]

\* f[k] = v, adding k to the domain when absent
Put(f, k, v) == [x \in DOMAIN f \cup {k} |-> IF x = k THEN v ELSE f[x]]
\* f without k
Drop(f, k) == [x \in DOMAIN f \ {k} |-> f[x]]

\* shutil.rmtree(temp_dir, ignore_errors=True)
rmtree(fs, unique_id) == Drop(fs, unique_id)

\* uuid.uuid4() of request r: a value no other call returns
uuid4Shared(r) == 1

uuid4(r) == r

\* db.query(Function).filter(Function.id == function_id).first(): the row
\* in a one-element sequence, or the empty sequence for None
QueryFirstAnyRow(table, function_id) ==
  IF function_id \in DOMAIN table THEN <<table[function_id]>>
  ELSE IF DOMAIN table = {} THEN <<>>
  ELSE <<table[CHOOSE id \in DOMAIN table : \A other \in DOMAIN table : id <= other]>>

QueryFirst(table, function_id) ==
  IF function_id \in DOMAIN table THEN <<table[function_id]>> ELSE <<>>

\* the functions table after the handler's session ran its query and was
\* closed by get_db: execute_function adds, changes and commits nothing
TableAfterQueryDeletes(table, function_id) ==
  [id \in DOMAIN table \ {function_id} |-> table[id]]

TableAfterQuery(table, function_id) == table

\* the pool list after `container = pool[0]`: indexing leaves the list as is
PoolAfterSelectPops(pool) == Tail(pool)

PoolAfterSelect(pool) == pool

\* lines 240-251: what the handler answers once the stats were asked for;
\* an exception of the stats call is caught by the inner try and logged
ResultAfterStatsPropagates(st, result) ==
  IF st.raised THEN HTTPException(500, "Execution failed") ELSE result

ResultAfterStats(st, result) == result


Init ==
  /\ started = "init"
  /\ failed_at = NoName
  /\ engine \in { FreshEngine, LeftoverEngine }
  /\ container_pools = EmptyPools
  /\ sandbox = [n \in Names |-> [f \in {"function.py", "function.js"} |-> NoFile]]
  /\ tmp = [u \in {} |-> NoFile]
  /\ metrics = [function_execution_seconds |-> [l \in {} |-> 0],
                container_cpu_usage |-> [l \in {} |-> 0],
                container_memory_usage |-> [l \in {} |-> 0]]
  /\ db = InitialFunctions
  /\ inv = [r \in 1..MaxReq |-> IdleInv]
  /\ crud = [c \in 1..MaxCrud |-> IdleCrud]

Startup ==
  /\ started = "init"
  /\ \E bad \in Names \cup {NoName} :
       LET st == StartupFrom(1, [pools |-> container_pools, eng |-> engine,
                                 failed |-> NoName, started |-> "up"], bad)
       IN /\ started' = st.started
          /\ failed_at' = st.failed
          /\ engine' = st.eng
          /\ container_pools' = st.pools
  /\ UNCHANGED <<sandbox, tmp, metrics, db, inv, crud>>

(* ------------------------------ execute_function ----------------------- *)
Done(l, response) == [l EXCEPT !.pc = "done", !.response = response]

\* lines 175-195: look the function up, validate its language, create the
\* temporary directory and write the code into the function file
Receive(r, function_id, tech) ==
  /\ started = "up"
  /\ inv[r].pc = "idle"
  /\ r > 1 => inv[r - 1].pc # "idle"
  /\ db' = TableAfterQuery(db, function_id)
  /\ LET l0 == [inv[r] EXCEPT !.function_id = function_id, !.tech = tech] IN
     IF QueryFirst(db, function_id) = <<>>
     THEN /\ inv' = [inv EXCEPT ![r] = Done(l0, NotFound)]
          /\ UNCHANGED tmp
     ELSE LET function == QueryFirst(db, function_id)[1]
              l1 == [l0 EXCEPT !.language = function.language, !.code = function.code,
                               !.timeout = function.timeout]
          IN IF function.language \notin DOMAIN ext_map
             THEN /\ inv' = [inv EXCEPT ![r] = Done(l1, UnsupportedLanguage)]
                  /\ UNCHANGED tmp
             ELSE LET unique_id == uuid4(r)
                      l2 == [l1 EXCEPT !.unique_id = unique_id]
                  IN IF function.code = NoCode
                       THEN \* f.write(None) raises TypeError: the file was opened,
                            \* nothing removes the directory
                            /\ tmp' = Put(tmp, unique_id, "")
                            /\ inv' = [inv EXCEPT ![r] = Done([l2 EXCEPT !.fault = "write"], Untranslated)]
                       ELSE /\ tmp' = Put(tmp, unique_id, function.code)
                            /\ inv' = [inv EXCEPT ![r] = [l2 EXCEPT !.pc = "written"]]
  /\ UNCHANGED <<crud, started, failed_at, engine, container_pools, sandbox, metrics>>

\* lines 197-216: choose the pool, take its container, build the archive
Acquire(r) ==
  /\ inv[r].pc = "written"
  /\ LET l0 == inv[r]
         pool_key == PoolKeyOf(l0.language, l0.tech)
         pool == GetPool(container_pools, pool_key)
         l1 == [l0 EXCEPT !.pool_key = pool_key]
     IN IF l0.language \notin {"python", "javascript"}
        THEN \* lines 202-204: the else branch of the pool choice
             /\ tmp' = rmtree(tmp, l0.unique_id)
             /\ inv' = [inv EXCEPT ![r] = Done([l0 EXCEPT !.rmtrees = @ + 1], UnsupportedLanguage)]
             /\ UNCHANGED container_pools
        ELSE IF Len(pool) = 0
        THEN /\ tmp' = rmtree(tmp, l0.unique_id)
             /\ inv' = [inv EXCEPT ![r] = Done([l1 EXCEPT !.rmtrees = @ + 1], PoolUnavailable)]
             /\ UNCHANGED container_pools
        ELSE LET index == SelectIndex(pool)
                 l2 == [l1 EXCEPT !.index = index, !.container = pool[index + 1]]
             IN /\ container_pools' = [container_pools EXCEPT ![pool_key] = PoolAfterSelect(pool)]
                /\ UNCHANGED tmp
                /\ \E tar \in {"ok", "error"} :
                     IF tar = "error" \/ l0.unique_id \notin DOMAIN tmp
                     THEN \* create_tar_for_file raises outside any try block
                          inv' = [inv EXCEPT ![r] = Done([l2 EXCEPT !.fault = "archive"], Untranslated)]
                     ELSE inv' = [inv EXCEPT ![r] =
                                    [l2 EXCEPT !.pc = "packed",
                                               !.archive = create_tar_for_file(tmp[l0.unique_id],
                                                             Filename(ext_map[l0.language]))]]
  /\ UNCHANGED <<crud, started, failed_at, engine, sandbox, metrics, db>>

\* lines 218-229: container.put_archive("/sandbox", archive_data)
CopyIn(r) ==
  /\ inv[r].pc = "packed"
  /\ LET l0 == [inv[r] EXCEPT !.calls = Append(@, "put_archive")] IN
     \E res \in {"ok", "error"} :
       IF res = "error"
       THEN /\ tmp' = rmtree(tmp, l0.unique_id)
            /\ inv' = [inv EXCEPT ![r] =
                         Done([l0 EXCEPT !.rmtrees = @ + 1, !.fault = "put_archive"], StagingFailed)]
            /\ UNCHANGED sandbox
       ELSE /\ sandbox' = [sandbox EXCEPT ![l0.container][l0.archive.arcname] = l0.archive.data]
            /\ inv' = [inv EXCEPT ![r] =
                         [l0 EXCEPT !.pc = "copied",
                                    !.exec_cmd = ExecCmd(l0.language, Filename(ext_map[l0.language]))]]
            /\ UNCHANGED tmp
  /\ UNCHANGED <<crud, started, failed_at, engine, container_pools, metrics, db>>

\* execution_time.labels(tech=tech.lower(), language=function.language).time():
\* one observation when the with block is left, also by an exception; the
\* value kept per label set is the summary's count of observations
ObserveLosesUpdate(m, tech, language, seconds) ==
  [m EXCEPT !.function_execution_seconds = Put(@, <<Lower(tech), language>>, 1)]

Observe(m, tech, language, seconds) ==
  LET labels == <<Lower(tech), language>>
      old == IF labels \in DOMAIN m.function_execution_seconds
             THEN m.function_execution_seconds[labels] ELSE 0
  IN [m EXCEPT !.function_execution_seconds = Put(@, labels, old + 1)]

\* lines 242-246: the two gauges of the container are overwritten
SetGauges(m, container_name, stats) ==
  [m EXCEPT !.container_cpu_usage =
              Put(@, container_name, IF stats.has_cpu THEN stats.total_usage ELSE 0),
            !.container_memory_usage =
              Put(@, container_name, IF stats.has_mem THEN stats.usage ELSE 0)]

\* line 234, first half: container.exec_run is issued; the engine starts the
\* process, which opens the file named on its command line
ExecStart(r) ==
  /\ inv[r].pc = "copied"
  /\ LET l0 == [inv[r] EXCEPT !.calls = Append(@, "exec_run")] IN
       IF engine[l0.container] # "running"
       THEN \* APIError (container not running): except Exception, then finally
            /\ metrics' = Observe(metrics, l0.tech, l0.language, 0)
            /\ tmp' = rmtree(tmp, l0.unique_id)
            /\ inv' = [inv EXCEPT ![r] =
                         Done([l0 EXCEPT !.rmtrees = @ + 1, !.fault = "exec_run"], ExecutionFailed)]
       ELSE /\ inv' = [inv EXCEPT ![r] =
                         [l0 EXCEPT !.pc = "running",
                                    !.ran = sandbox[l0.container][l0.exec_cmd[2][2]]]]
            /\ UNCHANGED <<tmp, metrics>>
  /\ UNCHANGED <<crud, started, failed_at, engine, container_pools, sandbox, db>>

\* time passes while the function process runs
Tick(r) ==
  /\ inv[r].pc = "running"
  /\ inv[r].elapsed < MaxElapsed
  /\ inv' = [inv EXCEPT ![r].elapsed = @ + 1]
  /\ UNCHANGED <<crud, started, failed_at, engine, container_pools, sandbox, tmp, metrics, db>>

\* lines 234-256, second half: the process exits, exec_run returns, the
\* streams are decoded, the stats are read, the result is returned and the
\* finally block removes the temporary directory
ExecReturn(r) ==
  /\ inv[r].pc = "running"
  /\ LET l0 == inv[r] IN
     \E p \in ProcOutcomes(l0.ran), st \in StatsSamples :
       LET output == Decode(p.stdout)
           error == Decode(p.stderr)
           m1 == Observe(metrics, l0.tech, l0.language, l0.elapsed)
           l1 == [l0 EXCEPT !.calls = Append(@, "stats"), !.exit_code = p.exit_code,
                            !.elapsed = 0, !.rmtrees = @ + 1]
       IN /\ metrics' = IF st.raised THEN m1 ELSE SetGauges(m1, l0.container, st)
          /\ tmp' = rmtree(tmp, l0.unique_id)
          /\ inv' = [inv EXCEPT ![r] =
                       Done([l1 EXCEPT !.fault = IF st.raised THEN "stats" ELSE "none"],
                            ResultAfterStats(st, ExecutionResult(output, error, l0.container)))]
  /\ UNCHANGED <<crud, started, failed_at, engine, container_pools, sandbox, db>>

\* the start-up on any engine: each pool container may be absent, running
\* or exited when the application starts
InitStartup ==
  /\ started = "init"
  /\ failed_at = NoName
  /\ engine \in [Names -> {"absent", "running", "exited"}]
  /\ container_pools = EmptyPools
  /\ sandbox = [n \in Names |-> [f \in {"function.py", "function.js"} |-> NoFile]]
  /\ tmp = [u \in {} |-> NoFile]
  /\ metrics = [function_execution_seconds |-> [l \in {} |-> 0],
                container_cpu_usage |-> [l \in {} |-> 0],
                container_memory_usage |-> [l \in {} |-> 0]]
  /\ db = InitialFunctions
  /\ inv = [r \in 1..MaxReq |-> IdleInv]
  /\ crud = [c \in 1..MaxCrud |-> IdleCrud]

NextStartup == Startup

SpecStartup == InitStartup /\ [][NextStartup]_vars

(* ------------------------------ delete_function ----------------------- *)
\* lines 158-165: the row is deleted and the change committed; an unknown
\* id is answered with 404 and changes nothing
delete_function(function_id) ==
  /\ started = "up"
  /\ db' = IF QueryFirst(db, function_id) = <<>> THEN db ELSE Drop(db, function_id)
  /\ UNCHANGED <<crud, started, failed_at, engine, container_pools, sandbox, tmp, metrics, inv>>

\* the engine of a host on which every pool container exists and runs
WarmEngine == [n \in Names |-> "running"]

\* the execute requests and the delete requests sent while the registry is
\* being changed
RegistryInputs == { <<1, "docker">>, <<4, "docker">>, <<6, "GVISOR">> }
DeleteInputs == {1, 6}

\* execute requests served while clients delete functions
InitRegistry ==
  /\ started = "init"
  /\ failed_at = NoName
  /\ engine = WarmEngine
  /\ container_pools = EmptyPools
  /\ sandbox = [n \in Names |-> [f \in {"function.py", "function.js"} |-> NoFile]]
  /\ tmp = [u \in {} |-> NoFile]
  /\ metrics = [function_execution_seconds |-> [l \in {} |-> 0],
                container_cpu_usage |-> [l \in {} |-> 0],
                container_memory_usage |-> [l \in {} |-> 0]]
  /\ db = InitialFunctions
  /\ inv = [r \in 1..MaxReq |-> IdleInv]
  /\ crud = [c \in 1..MaxCrud |-> IdleCrud]

NextRegistry ==
  \/ Startup
  \/ \E function_id \in DeleteInputs : delete_function(function_id)
  \/ \E r \in 1..MaxReq, q \in RegistryInputs : Receive(r, q[1], q[2])
  \/ \E r \in 1..MaxReq : Acquire(r)
  \/ \E r \in 1..MaxReq : CopyIn(r)
  \/ \E r \in 1..MaxReq : ExecStart(r)
  \/ \E r \in 1..MaxReq : Tick(r)
  \/ \E r \in 1..MaxReq : ExecReturn(r)

SpecRegistry == InitRegistry /\ [][NextRegistry]_vars

(* --------------------- create_function, update_function ---------------- *)
\* the response of a create or update that succeeded (schemas.FunctionRead)
FunctionRead(id, row) ==
  [status |-> 200, id |-> id, name |-> row.name, route |-> row.route,
   language |-> row.language, timeout |-> row.timeout]

FunctionExists == HTTPException(400, "Function already exists")

\* db.query(Function).filter(Function.name == name).first() is not None
NameTaken(table, name) == \E id \in DOMAIN table : table[id].name = name

\* models.py, unique=True on name and on route: the statement that would
\* leave row at id beside another row of the same name or the same route
\* fails with IntegrityError
UniqueViolatedRouteOnly(table, id, row) ==
  \E other \in DOMAIN table \ {id} : table[other].route = row.route

UniqueViolated(table, id, row) ==
  \E other \in DOMAIN table \ {id} :
    table[other].name = row.name \/ table[other].route = row.route

\* id = Column(Integer, primary_key=True): SQLite assigns the largest id in
\* the table plus one
NextRowId(table) ==
  IF DOMAIN table = {} THEN 1
  ELSE 1 + CHOOSE id \in DOMAIN table : \A other \in DOMAIN table : other <= id

\* lines 126-128: the name is looked up; a taken name is answered with 400
create_function(c, function) ==
  /\ started = "up"
  /\ crud[c].pc = "idle"
  /\ c > 1 => crud[c - 1].pc # "idle"
  /\ LET l0 == [crud[c] EXCEPT !.op = "create", !.body = function] IN
       crud' = [crud EXCEPT ![c] =
                  IF NameTaken(db, function.name)
                  THEN Done(l0, FunctionExists)
                  ELSE [l0 EXCEPT !.pc = "checked"]]
  /\ UNCHANGED <<started, failed_at, engine, container_pools, sandbox, tmp, metrics, db, inv>>

\* lines 129-133: the row is inserted without code and committed; an
\* IntegrityError is not caught and the transaction is not applied
create_commit(c) ==
  /\ crud[c].pc = "checked"
  /\ LET l0 == crud[c]
         id == NextRowId(db)
         row == [name |-> l0.body.name, route |-> l0.body.route,
                 language |-> l0.body.language, timeout |-> l0.body.timeout, code |-> NoCode]
     IN IF UniqueViolated(db, id, row)
        THEN /\ crud' = [crud EXCEPT ![c] = Done(l0, Untranslated)]
             /\ UNCHANGED db
        ELSE /\ db' = Put(db, id, row)
             /\ crud' = [crud EXCEPT ![c] = Done([l0 EXCEPT !.function_id = id], FunctionRead(id, row))]
  /\ UNCHANGED <<started, failed_at, engine, container_pools, sandbox, tmp, metrics, inv>>

\* lines 148-150: the row is loaded; an unknown id is answered with 404
update_function(c, function_id, updated_function) ==
  /\ started = "up"
  /\ crud[c].pc = "idle"
  /\ c > 1 => crud[c - 1].pc # "idle"
  /\ LET l0 == [crud[c] EXCEPT !.op = "update", !.function_id = function_id,
                               !.body = updated_function] IN
       crud' = [crud EXCEPT ![c] =
                  IF QueryFirst(db, function_id) = <<>>
                  THEN Done(l0, NotFound)
                  ELSE LET function == QueryFirst(db, function_id)[1] IN
                       [l0 EXCEPT !.pc = "loaded",
                                  !.loaded = FunctionCreate(function.name, function.route)]]
  /\ UNCHANGED <<started, failed_at, engine, container_pools, sandbox, tmp, metrics, db, inv>>

\* lines 151-156: the attributes are set and the change committed.  The
\* UPDATE carries the attributes whose value differs from the loaded one;
\* it fails when the row is gone (StaleDataError) or a unique column would
\* repeat (IntegrityError), and neither is caught
update_commit(c) ==
  /\ crud[c].pc = "loaded"
  /\ LET l0 == crud[c]
         id == l0.function_id
     IN IF id \notin DOMAIN db
        THEN /\ crud' = [crud EXCEPT ![c] = Done(l0, Untranslated)]
             /\ UNCHANGED db
        ELSE LET row == [db[id] EXCEPT
                           !.name = IF l0.body.name # l0.loaded.name THEN l0.body.name ELSE @,
                           !.route = IF l0.body.route # l0.loaded.route THEN l0.body.route ELSE @]
             IN IF UniqueViolated(db, id, row)
                THEN /\ crud' = [crud EXCEPT ![c] = Done(l0, Untranslated)]
                     /\ UNCHANGED db
                ELSE /\ db' = [db EXCEPT ![id] = row]
                     /\ crud' = [crud EXCEPT ![c] = Done(l0, FunctionRead(id, row))]
  /\ UNCHANGED <<started, failed_at, engine, container_pools, sandbox, tmp, metrics, inv>>

\* the bodies of the create requests and the <<id, body>> of the update
\* requests: names and routes that are taken, free, or both
CreateInputs ==
  { FunctionCreate("hello", "/new"), FunctionCreate("new", "/hello"), FunctionCreate("new", "/new") }
UpdateInputs ==
  { <<2, FunctionCreate("hello", "/boom")>>, <<2, FunctionCreate("new", "/boom")>>,
    <<1, FunctionCreate("hello", "/new")>>, <<6, FunctionCreate("new", "/new")>> }

\* create, update and delete requests served concurrently
NextCrud ==
  \/ Startup
  \/ \E function_id \in DeleteInputs : delete_function(function_id)
  \/ \E c \in 1..MaxCrud, function \in CreateInputs : create_function(c, function)
  \/ \E c \in 1..MaxCrud : create_commit(c)
  \/ \E c \in 1..MaxCrud, q \in UpdateInputs : update_function(c, q[1], q[2])
  \/ \E c \in 1..MaxCrud : update_commit(c)

SpecCrud == InitRegistry /\ [][NextCrud]_vars

Next ==
  \/ Startup
  \/ \E r \in 1..MaxReq, q \in RequestInputs : Receive(r, q[1], q[2])
  \/ \E r \in 1..MaxReq : Acquire(r)
  \/ \E r \in 1..MaxReq : CopyIn(r)
  \/ \E r \in 1..MaxReq : ExecStart(r)
  \/ \E r \in 1..MaxReq : Tick(r)
  \/ \E r \in 1..MaxReq : ExecReturn(r)


Spec == Init /\ [][Next]_vars

(* ======================= properties of the claims ====================== *)
Contains(seq, x) == \E i \in 1..Len(seq) : seq[i] = x

Reqs == 1..MaxReq
\* the requests that took a container of the pool key
AcquisitionsOn(key) == { r \in Reqs : inv[r].pool_key = key /\ inv[r].container # NoName }
\* the requests routed to the container
ServedBy(name) == { r \in Reqs : inv[r].container = name }
\* the in-container path an invocation stages its code to
StagedPath(r) == <<"/sandbox", inv[r].archive.arcname>>
\* the pool key whose containers carry the name
KeyOfName(name) ==
  CHOOSE key \in PoolKeys : \E k \in 1..Len(PoolConfig) :
    /\ PoolConfig[k].key = key
    /\ PoolConfig[k].language = name[1]
    /\ (IF PoolConfig[k].runtime # "none" THEN PoolConfig[k].runtime ELSE "docker") = name[2]
\* the pool keys configured before the key
KeysBefore(key) ==
  { PoolConfig[j].key : j \in { i \in 1..Len(PoolConfig) :
      \E k \in 1..Len(PoolConfig) : PoolConfig[k].key = key /\ i < k } }

\* C1: round-robin fairness: N consecutive acquisitions on a pool of size N
\* select each of its containers once, so at any moment the numbers of
\* acquisitions served by two containers of one pool differ by at most one.
C1_RoundRobinFairness ==
  \A key \in DOMAIN container_pools :
    \A i, j \in 1..Len(container_pools[key]) :
      Cardinality(ServedBy(container_pools[key][i]))
        - Cardinality(ServedBy(container_pools[key][j])) <= 1

\* C2: isolation: two invocations in flight on the same container stage their
\* code at different in-container paths, and the process of an invocation
\* runs exactly the source that invocation staged.
C2_Isolation ==
  /\ \A r1, r2 \in Reqs :
       ( /\ r1 # r2
         /\ inv[r1].pc \in {"copied", "running"}
         /\ inv[r2].pc \in {"copied", "running"}
         /\ inv[r1].container = inv[r2].container )
       => StagedPath(r1) # StagedPath(r2)
  /\ \A r \in Reqs : inv[r].pc = "running" => inv[r].ran = inv[r].code

\* C3: guaranteed cleanup: when a request has returned, the temporary
\* directory it created is gone and was removed exactly once.
C3_GuaranteedCleanup ==
  \A r \in Reqs :
    (inv[r].pc = "done" /\ inv[r].unique_id # 0)
    => (inv[r].unique_id \notin DOMAIN tmp /\ inv[r].rmtrees = 1)

\* C4: a request whose pool key is absent from the active pool set fails with
\* PoolUnavailable in the step that looks the pool up, holds no container and
\* has issued no container-engine call.
C4_PoolUnavailable ==
  \A r \in Reqs :
    (inv[r].pool_key # "" /\ inv[r].pool_key \notin DOMAIN container_pools)
    => /\ inv[r].pc = "done"
       /\ inv[r].response = PoolUnavailable
       /\ inv[r].container = NoName
       /\ inv[r].calls = <<>>

C4_Witness ==
  \E r \in Reqs :
    /\ inv[r].pool_key = "gvisor_python"
    /\ "gvisor_python" \notin DOMAIN container_pools
    /\ inv[r].pc = "done"
    /\ inv[r].response = PoolUnavailable

\* C5 as stated: whichever pool key has a container that can be neither
\* created nor fetched, start-up completes, that key alone is missing from the
\* active pool set and every other pool holds its containers.
C5_PerKeyDegradation ==
  (started # "init" /\ failed_at # NoName)
  => /\ started = "up"
     /\ DOMAIN container_pools = PoolKeys \ {KeyOfName(failed_at)}
     /\ \A key \in DOMAIN container_pools : Len(container_pools[key]) = PoolCount

\* C5 as amended: a failure in a docker pool aborts start-up; a failure in a
\* gvisor pool lets start-up complete with exactly the pools configured before
\* the failing one, each holding all its containers, which exist in the
\* engine; without a failure all four pools are active.
C5_GvisorDegradation ==
  started # "init"
  => /\ (started = "aborted") <=> (failed_at # NoName /\ failed_at[2] = "docker")
     /\ (failed_at # NoName /\ failed_at[2] = "runsc")
          => DOMAIN container_pools = KeysBefore(KeyOfName(failed_at))
     /\ failed_at = NoName => DOMAIN container_pools = PoolKeys
     /\ started = "up"
          => \A key \in DOMAIN container_pools :
               /\ Len(container_pools[key]) = PoolCount
               /\ \A i \in 1..PoolCount : engine[container_pools[key][i]] # "absent"

C5_Witness ==
  /\ started = "up"
  /\ failed_at = <<"python", "runsc", 1>>
  /\ DOMAIN container_pools = {"docker_python", "docker_javascript"}
  /\ engine[<<"javascript", "runsc", 0>>] = "absent"

\* the error counter of a label set: the code registers no such family
ErrorCount(function_id, tech) ==
  IF "function_errors_total" \in DOMAIN metrics
  THEN metrics["function_errors_total"][<<function_id, tech>>]
  ELSE 0
\* the request counter of a label set: the count of the execution summary
RequestCount(tech, language) ==
  IF <<tech, language>> \in DOMAIN metrics.function_execution_seconds
  THEN metrics.function_execution_seconds[<<tech, language>>]
  ELSE 0

\* C6: a run that exits non-zero is answered with a successful response whose
\* error field is the captured stderr, and it is counted both as a request
\* and as an error for its label set.
C6_NonZeroExitCounted ==
  \A r \in Reqs :
    (inv[r].pc = "done" /\ inv[r].exit_code > 0)
    => /\ inv[r].response.status = 200
       /\ inv[r].response.error = <<"err", inv[r].ran>>
       /\ RequestCount(Lower(inv[r].tech), inv[r].language) >= 1
       /\ ErrorCount(inv[r].function_id, Lower(inv[r].tech)) >= 1

\* C7: timeout enforcement: a function process is killed when it reaches the
\* declared timeout of its function, so no process is found running beyond it.
C7_TimeoutEnforced ==
  \A r \in Reqs : inv[r].pc = "running" => inv[r].elapsed <= inv[r].timeout

\* C8: atomic acquisition: after k acquisitions on a pool the index the next
\* acquisition selects is k modulo the pool size, and up to pool-size many
\* acquisitions observed pairwise different indexes.
C8_AtomicCursor ==
  \A key \in DOMAIN container_pools :
    LET pool == container_pools[key]
        k == Cardinality(AcquisitionsOn(key))
    IN /\ SelectIndex(pool) = k % Len(pool)
       /\ k <= Len(pool)
            => \A r1, r2 \in AcquisitionsOn(key) : r1 # r2 => inv[r1].index # inv[r2].index

\* C9: a failure of the archive build or of the copy-in is answered with
\* StagingFailed, a failure to invoke the run command with ExecutionFailed,
\* and the temporary directory is gone when the error is returned.
C9_FailuresTranslated ==
  \A r \in Reqs :
    (inv[r].pc = "done" /\ inv[r].fault \in {"archive", "put_archive", "exec_run"})
    => /\ inv[r].response =
            (IF inv[r].fault = "exec_run" THEN ExecutionFailed ELSE StagingFailed)
       /\ inv[r].unique_id \notin DOMAIN tmp

\* C10: no copy-in and no exec is issued to a container that is not running
\* unless the invocation issued a start to it first.
C10_EnsureRunning ==
  \A r \in Reqs :
    (inv[r].container # NoName /\ engine[inv[r].container] # "running")
    => \/ Contains(inv[r].calls, "start")
       \/ ~ (Contains(inv[r].calls, "put_archive") \/ Contains(inv[r].calls, "exec_run"))

\* the count of the execution summary of a label set in the registry m
SummaryCount(m, labels) ==
  IF labels \in DOMAIN m.function_execution_seconds
  THEN m.function_execution_seconds[labels] ELSE 0

\* C11: stats retrieval is best-effort: when the process has exited and the
\* stats call raises, the request is answered with a successful result that
\* carries the output, the error text and the container name, the duration
\* is still observed, and the gauges keep their previous values.
C11_StatsBestEffort ==
  [][\A r \in Reqs :
       (inv[r].pc = "running" /\ inv'[r].pc = "done" /\ inv'[r].fault = "stats")
       => /\ inv'[r].response.status = 200
          /\ inv'[r].response.container_name = inv[r].container
          /\ inv'[r].response.output =
               (IF inv'[r].exit_code = 0 THEN <<"out", inv[r].ran>> ELSE <<>>)
          /\ inv'[r].response.error =
               (IF inv'[r].exit_code = 0 THEN <<>> ELSE <<"err", inv[r].ran>>)
          /\ metrics'.container_cpu_usage = metrics.container_cpu_usage
          /\ metrics'.container_memory_usage = metrics.container_memory_usage
          /\ SummaryCount(metrics', <<Lower(inv[r].tech), inv[r].language>>)
               = SummaryCount(metrics, <<Lower(inv[r].tech), inv[r].language>>) + 1
    ]_vars

C11_Witness ==
  \E r \in Reqs :
    /\ inv[r].pc = "done"
    /\ inv[r].fault = "stats"
    /\ inv[r].response.status = 200
    /\ inv[r].container \notin DOMAIN metrics.container_cpu_usage

\* the technology a tech parameter resolves to
ResolvedTech(tech) == IF Lower(tech) = "gvisor" THEN "gvisor" ELSE "docker"

\* C12: the pool of a request is the one keyed by the resolved technology
\* (gvisor for any spelling of gvisor, docker for every other value) and the
\* function's language; the container it stages into and runs in, and the
\* container named in its response, is a member of that pool.
C12_TechnologyRouting ==
  \A r \in Reqs :
    /\ inv[r].pool_key # ""
         => inv[r].pool_key = ResolvedTech(inv[r].tech) \o "_" \o inv[r].language
    /\ inv[r].container # NoName
         => /\ inv[r].pool_key \in DOMAIN container_pools
            /\ Contains(container_pools[inv[r].pool_key], inv[r].container)
            /\ inv[r].container[1] = inv[r].language
            /\ inv[r].container[2] =
                 (IF ResolvedTech(inv[r].tech) = "gvisor" THEN "runsc" ELSE "docker")
    /\ (inv[r].pc = "done" /\ inv[r].response.status = 200)
         => inv[r].response.container_name = inv[r].container

C12_Witness ==
  \E r1, r2 \in Reqs :
    /\ inv[r1].tech = "podman"
    /\ inv[r1].pc = "done"
    /\ inv[r1].response.status = 200
    /\ inv[r1].response.container_name[2] = "docker"
    /\ inv[r2].tech = "GVISOR"
    /\ inv[r2].container # NoName
    /\ inv[r2].container[2] = "runsc"

\* C13: a request for a function whose language is neither python nor
\* javascript is answered with UnsupportedLanguage at once: it holds no
\* container, issued no engine call and created no temporary directory.
C13_UnsupportedLanguage ==
  \A r \in Reqs :
    (inv[r].pc # "idle" /\ inv[r].language \notin {"", "python", "javascript"})
    => /\ inv[r].pc = "done"
       /\ inv[r].response = UnsupportedLanguage
       /\ inv[r].container = NoName
       /\ inv[r].calls = <<>>
       /\ inv[r].unique_id = 0
       /\ uuid4(r) \notin DOMAIN tmp

C13_Witness ==
  \E r \in Reqs :
    /\ inv[r].function_id = 4
    /\ inv[r].language = "ruby"
    /\ inv[r].response = UnsupportedLanguage

\* C14: once start-up is over no step changes the set of active pool keys,
\* the containers of a pool or the state of a container in the engine, and
\* no request issues a stop, a remove or a kill.
C14_PoolsFixed ==
  [][started = "up"
       => /\ container_pools' = container_pools
          /\ engine' = engine
          /\ \A r \in Reqs :
               ~ (\/ Contains(inv'[r].calls, "stop")
                  \/ Contains(inv'[r].calls, "remove")
                  \/ Contains(inv'[r].calls, "kill"))
    ]_vars

C14_Witness ==
  /\ started = "up"
  /\ \E r1, r2 \in Reqs :
       /\ inv[r1].pc = "done" /\ inv[r1].response.status = 200
       /\ inv[r2].pc = "done" /\ inv[r2].response = StagingFailed
       /\ inv[r1].pool_key = inv[r2].pool_key
       /\ Len(container_pools[inv[r1].pool_key]) = PoolCount

\* C15: every step of an execute request, whatever its outcome, leaves the
\* functions table as it was.
C15_RegistryUnchanged ==
  [][inv' # inv => db' = db]_vars

C15_Witness ==
  \E r1, r2 \in Reqs :
    /\ inv[r1].pc = "done" /\ inv[r1].response.status = 200
    /\ inv[r2].pc = "done" /\ inv[r2].response.status # 200
    /\ db = InitialFunctions

\* C16: start-up reuses every container that already exists under a pool
\* name and leaves it as it is, and running start-up again on the engine it
\* left behind yields the same outcome, the same pools and the same engine.
C16_StartupIdempotent ==
  [][(started = "init" /\ started' # "init")
       => /\ \A n \in Names : engine[n] # "absent" => engine'[n] = engine[n]
          /\ LET again == StartupFrom(1, [pools |-> EmptyPools, eng |-> engine',
                                          failed |-> NoName, started |-> "up"], failed_at')
             IN /\ again.started = started'
                /\ again.pools = container_pools'
                /\ again.eng = engine'
    ]_vars

C16_Witness ==
  /\ started = "up"
  /\ DOMAIN container_pools = PoolKeys
  /\ engine[<<"python", "docker", 0>>] = "exited"
  /\ container_pools["docker_python"][1] = <<"python", "docker", 0>>

\* the technology and the language a pool key is made of
KeyTechnology(key) == IF key \in {"gvisor_python", "gvisor_javascript"} THEN "gvisor" ELSE "docker"
KeyLanguage(key) == IF key \in {"docker_python", "gvisor_python"} THEN "python" ELSE "javascript"
\* the positions of all active pools
PoolSlots == { <<key, i>> : key \in DOMAIN container_pools, i \in 1..PoolCount }

\* C17 as stated: the container at index i of the pool for (technology,
\* language) is named {language}_{technology}_pool_{i} with technology docker
\* or gvisor, and the names of all pool positions are pairwise different.
C17_NamesByTechnology ==
  /\ \A key \in DOMAIN container_pools : \A i \in 1..Len(container_pools[key]) :
       NameText(container_pools[key][i])
         = KeyLanguage(key) \o "_" \o KeyTechnology(key) \o "_pool_" \o ToString(i - 1)
  /\ \A a, b \in PoolSlots :
       (a # b /\ a[2] <= Len(container_pools[a[1]]) /\ b[2] <= Len(container_pools[b[1]]))
       => NameText(container_pools[a[1]][a[2]]) # NameText(container_pools[b[1]][b[2]])

\* C17 as amended: the name is {language}_{pool_type}_pool_{i} where pool_type
\* is docker for the docker pools and the runtime name runsc for the gvisor
\* pools, and the names of all pool positions are pairwise different.
C17_NamesByRuntime ==
  /\ \A key \in DOMAIN container_pools : \A i \in 1..Len(container_pools[key]) :
       NameText(container_pools[key][i])
         = KeyLanguage(key) \o "_"
             \o (IF KeyTechnology(key) = "gvisor" THEN "runsc" ELSE "docker")
             \o "_pool_" \o ToString(i - 1)
  /\ \A a, b \in PoolSlots :
       (a # b /\ a[2] <= Len(container_pools[a[1]]) /\ b[2] <= Len(container_pools[b[1]]))
       => NameText(container_pools[a[1]][a[2]]) # NameText(container_pools[b[1]][b[2]])

C17_Witness ==
  /\ started = "up"
  /\ "gvisor_javascript" \in DOMAIN container_pools
  /\ NameText(container_pools["gvisor_javascript"][2]) = "javascript_runsc_pool_1"
  /\ NameText(container_pools["docker_python"][1]) = "python_docker_pool_0"

\* the invocations whose function process ran to its exit
Ran(r) == inv[r].pc = "done" /\ inv[r].exit_code >= 0
\* the invocations that left the timed block around exec_run
Observed(r) == inv[r].pc = "done" /\ Contains(inv[r].calls, "exec_run")
\* the label sets a request can have
FunctionLabelSets ==
  { <<InitialFunctions[q[1]].name, InitialFunctions[q[1]].language, ResolvedTech(q[2])>> :
      q \in { x \in RequestInputs : x[1] \in DOMAIN InitialFunctions } }
SummaryLabelSets == { <<Lower(q[2]), l>> : q \in RequestInputs, l \in Languages }

RECURSIVE SumCounts(_, _)
SumCounts(m, labelsets) ==
  IF labelsets = {} THEN 0
  ELSE LET l == CHOOSE x \in labelsets : TRUE
       IN SummaryCount(m, l) + SumCounts(m, labelsets \ {l})

C19_StagingRoundTrip ==
  [][\A r \in Reqs :
       (inv[r].pc = "packed" /\ inv'[r].pc = "copied")
       => /\ inv'[r].exec_cmd[2] = <<"/sandbox", inv[r].archive.arcname>>
          /\ sandbox'[inv[r].container][inv'[r].exec_cmd[2][2]] = inv[r].code
          /\ inv[r].code = InitialFunctions[inv[r].function_id].code
    ]_vars

C19_Witness ==
  \E r \in Reqs :
    /\ inv[r].pc = "copied"
    /\ inv[r].exec_cmd[2] = StagedPath(r)
    /\ sandbox[inv[r].container][inv[r].archive.arcname] = "src_b"
    /\ inv[r].code = "src_b"

\* C20: a request for a function id that is not in the registry when it is
\* looked up is answered with NotFound in that step: it created no temporary
\* directory, holds no container and issued no engine call.
C20_NotFound ==
  [][\A r \in Reqs :
       (inv[r].pc = "idle" /\ inv'[r].pc # "idle" /\ inv'[r].function_id \notin DOMAIN db)
       => /\ inv'[r].pc = "done"
          /\ inv'[r].response = NotFound
          /\ inv'[r].unique_id = 0
          /\ inv'[r].container = NoName
          /\ inv'[r].calls = <<>>
          /\ tmp' = tmp
    ]_vars

C20_Witness ==
  \E r1, r2 \in Reqs :
    /\ inv[r1].function_id = 1 /\ 1 \notin DOMAIN db
    /\ inv[r1].pc = "done" /\ inv[r1].response = NotFound
    /\ inv[r2].function_id = 6
    /\ inv[r2].pc = "done" /\ inv[r2].response = NotFound
    /\ DOMAIN tmp = {}

\* C22: every pool in the active pool set holds exactly PoolCount containers,
\* all of which exist in the engine, and the pool whose creation failed at
\* some container is not in the active pool set, also when containers
\* before the failing one were obtained.
C22_NoPartialPool ==
  /\ \A key \in DOMAIN container_pools :
       /\ container_pools[key] # <<>>
       /\ Len(container_pools[key]) = PoolCount
       /\ \A i \in 1..Len(container_pools[key]) : engine[container_pools[key][i]] # "absent"
  /\ failed_at # NoName => KeyOfName(failed_at) \notin DOMAIN container_pools

C22_Witness ==
  /\ started = "up"
  /\ failed_at = <<"javascript", "runsc", 1>>
  /\ engine[<<"javascript", "runsc", 0>>] = "running"
  /\ "gvisor_javascript" \notin DOMAIN container_pools
  /\ "gvisor_python" \in DOMAIN container_pools

\* C23: any two invocations that created a temporary directory created
\* different ones, and while an invocation has written its function file and
\* not yet packaged it, no step of another invocation, its cleanup included,
\* removes or changes that file.
C23_PrivateStaging ==
  [][/\ \A r1, r2 \in Reqs :
          (r1 # r2 /\ inv'[r1].unique_id # 0 /\ inv'[r2].unique_id # 0)
          => inv'[r1].unique_id # inv'[r2].unique_id
     /\ \A r \in Reqs :
          (inv[r].pc = "written" /\ inv'[r].pc = "written")
          => /\ inv[r].unique_id \in DOMAIN tmp'
             /\ tmp'[inv[r].unique_id] = inv[r].code
    ]_vars

\* the later of two invocations of one function has finished and cleaned
\* up while the earlier one still holds its written, unpackaged file
C23_Witness ==
  \E r1, r2 \in Reqs :
    /\ r2 < r1
    /\ inv[r1].function_id = inv[r2].function_id
    /\ inv[r1].pc = "done" /\ inv[r1].rmtrees > 0 /\ inv[r1].unique_id \notin DOMAIN tmp
    /\ inv[r2].pc = "written"
    /\ inv[r2].unique_id \in DOMAIN tmp
    /\ tmp[inv[r2].unique_id] = inv[r2].code

\* the create and update requests
Cruds == 1..MaxCrud
\* no two rows of the table have the same name
NamesUnique(table) ==
  \A id1, id2 \in DOMAIN table : id1 # id2 => table[id1].name # table[id2].name

\* C21: before and after every step of a create, update or delete request
\* no two registered functions share a name, and the step on which a create
\* request meets a registered function of its name, at its look-up or at its
\* commit, ends the request with an error and leaves the registry as it was.
C21_NameUniqueness ==
  [][/\ NamesUnique(db)
     /\ NamesUnique(db')
     /\ \A c \in Cruds :
          (/\ crud'[c].op = "create"
           /\ crud[c].pc # "done"
           /\ crud'[c] # crud[c]
           /\ NameTaken(db, crud'[c].body.name))
          => /\ crud'[c].pc = "done"
             /\ crud'[c].response.status >= 400
             /\ db' = db
    ]_vars

\* a create was refused for its registered name while an update gave
\* another function a new name
C21_Witness ==
  \E c1, c2 \in Cruds :
    /\ crud[c1].op = "create" /\ crud[c1].response = FunctionExists
    /\ crud[c2].op = "update" /\ crud[c2].response.status = 200
    /\ \E id \in DOMAIN db : db[id].name = "new"
    /\ NamesUnique(db)
====
